---- MODULE Spec2Model ----
(***************************************************************************)
(* Session credential lifecycle of vnlib.browser: the key store            *)
(* (session/sessionKeyStore.ts), the session state (session/state.ts),     *)
(* the derived loggedIn flag and its watcher (session/session.ts), the     *)
(* session utilities (session/sessionUtils.ts) and the user operations     *)
(* that drive them (user/user.ts).                                         *)
(*                                                                         *)
(* Every asynchronous function in flight is a record in the bag calls,     *)
(* whose pc names the await point it is suspended at; one action is the    *)
(* synchronous code between two await points (consecutive awaits of        *)
(* WebCrypto with nothing read or written in between are one await).  The  *)
(* pre-flush watcher job of Vue runs in the microtask that follows the     *)
(* task that changed a dependency, so no other action starts while the     *)
(* job is queued.                                                          *)
(***************************************************************************)
EXTENDS Integers, Sequences, FiniteSets, Bags, TLC

\* ------------------------------------------------------------------ bounds
MaxCalls == 2
MaxKeyGen == 2
MaxNonce == 2
\* apiCall() invocations pending at a time
MaxApiCalls == 2
\* consecutive reveals of the password prompt within one elevatedApiCall()
MaxAttempts == 3

\* --------------------------------------------------------------- encodings
\* null of a stored string
Nil == << -1 >>

\* undefined: a header that is not set, a call that has not been made, a
\* member an object does not have
Absent == << -2 >>

\* lodash isNil: null or undefined
isNil(x) == x = Nil \/ x = Absent

\* index of the padding character "=" after the 64 digits of the alphabet
Pad == 64

RECURSIVE ArrayBuffToBase64(_)
ArrayBuffToBase64(b) ==
    IF Len(b) = 0 THEN << >>
    ELSE IF Len(b) = 1 THEN
        << b[1] \div 4, (b[1] % 4) * 16, Pad, Pad >>
    ELSE IF Len(b) = 2 THEN
        << b[1] \div 4, (b[1] % 4) * 16 + (b[2] \div 16), (b[2] % 16) * 4, Pad >>
    ELSE
        << b[1] \div 4, (b[1] % 4) * 16 + (b[2] \div 16),
           (b[2] % 16) * 4 + (b[3] \div 64), b[3] % 64 >>
        \o ArrayBuffToBase64(SubSeq(b, 4, Len(b)))

RECURSIVE ArrayToHexString(_)
ArrayToHexString(b) ==
    IF Len(b) = 0 THEN << >>
    ELSE << b[1] \div 16, b[1] % 16 >> \o ArrayToHexString(Tail(b))

\* key pairs are numbered in the order crypto.generateKey produces them
KeyIds == 1..MaxKeyGen

\* crypto.exportKey('pkcs8', privateKey) / ('spki', publicKey)
ExportPkcs8(k) == << 48, 130, k >>
ExportSpki(k) == << 48, 129, k >>

\* the secret the server issues (an HMAC key, never empty)
Secrets == { << 23, 201 >> }

\* RSA-OAEP ciphertext of secret s under the public key of pair k
Ciphertext(k, s) == << k >> \o s
Ciphertexts == { Ciphertext(k, s) : k \in KeyIds, s \in Secrets }

\* the secret the server issues when it renews the credentials of a session
\* that holds one, and its ciphertexts
RenewedSecrets == { << 7 >> }
RenewedCiphertexts == { Ciphertext(k, s) : k \in KeyIds, s \in RenewedSecrets }

\* random bytes window.crypto.getRandomValues can produce for a browser id
RandomBytes == { << 171 >>, << 18 >> }

AllBuffers == { << >> } \cup { ExportPkcs8(k) : k \in KeyIds }
              \cup { ExportSpki(k) : k \in KeyIds } \cup Secrets
              \cup RenewedSecrets

Base64ToUint8Array(s) ==
    CHOOSE b \in AllBuffers : ArrayBuffToBase64(b) = s

\* crypto.importKey('pkcs8', keyData, ...) succeeds on a pkcs8 private key
IsPkcs8(keyData) == \E k \in KeyIds : keyData = ExportPkcs8(k)

\* crypto.decrypt succeeds when the ciphertext was made for this private key
CanDecrypt(keyData, data) ==
    /\ IsPkcs8(keyData)
    /\ data \in Ciphertexts \cup RenewedCiphertexts
    /\ data[1] = keyData[3]

Decrypt(data) == Tail(data)

\* -------------------------------------------------------------------- state
VARIABLES
    token,          \* state.ts storage.value.token
    bid,            \* state.ts storage.value.bid
    priv,           \* sessionKeyStore.ts storage.value.private
    pub,            \* sessionKeyStore.ts storage.value.public
    loginCookie,    \* LoginCookieManager.loginCookie
    cookiesEnabled, \* config.cookiesEnabled
    watchOld,       \* value of loggedIn the watcher last saw
    watchPending,   \* the watcher job is queued
    calls,          \* bag of the asynchronous calls in flight
    nextKey,        \* number of the next key pair generateKey returns
    seenIn,         \* history: loggedIn has been true under the stored token
    nextNonce,      \* number of the next nonce getRandomHex(16) returns
    lastOtp,        \* what the last call of generateOneTimeToken() returned
    lastHeader,     \* the token header of the last request sent
    sent,           \* the tokens that requests have carried so far
    isActive,       \* the interval of the automatic heartbeat is running
    lastTick,       \* what the interval did last: a tick that sent a keepalive
                    \* or skipped it, or a keepalive of a tick that failed
    mfa,            \* the upgrade message of the MFA continuation the caller holds
    loginError,     \* the last login() that got an upgrade message rejected
    lastUpgrade,    \* the upgrade field of the last MFA submission posted
    submitResult,   \* how the last MFA submit that settled did so
    store,          \* the item of the key store in the shared storage backend
    hasStorage,     \* per tab: configureApi() has set the storage backend
    mem,            \* per tab: the value of the reactive storage element
    genPending,     \* per tab: a key pair is being generated
    debounce,       \* per tab: the debounce timer of the storage watcher runs
    deferred,       \* per tab: the value the deferred write holds, if one waits
    events,         \* per tab: storage events not yet delivered
    keysMade,       \* number of key pairs the tabs have generated
    prevItem,       \* history: the item that the last write replaced
    waiting,        \* the shared waiting flag
    pendingApi,     \* number of apiCall() invocations that have not settled
    lastSettle,     \* how the last apiCall() that settled did so
    notified,       \* the error notification on display
    userName,       \* user.ts userState.userName
    userWatchOld,   \* the value of loggedIn the watcher of user.ts saw last
    guarding,       \* usePageGuard() has been called
    route,          \* router.currentRoute
    navTarget,      \* the route of a navigation that has not completed
    lastPage,       \* the item of the last-page storage
    guardOld,       \* the value of loggedIn the watcher of the guard saw last
    elevPc,         \* where the elevatedApiCall() in progress is
    attempts,       \* how often it has revealed the password prompt
    invoked,        \* how often it has invoked its callback
    elevResult,     \* what the last elevatedApiCall() returned
    resourceData,   \* useDataBuffer: data, the state of the resource
    buffer,         \* useDataBuffer: the buffer that is edited
    lastOp          \* useDataBuffer: the last operation on the buffer

vars == << token, bid, priv, pub, loginCookie, cookiesEnabled,
           watchOld, watchPending, calls, nextKey, seenIn,
           nextNonce, lastOtp, lastHeader, sent,
           isActive, lastTick,
           mfa, loginError, lastUpgrade, submitResult,
           store, hasStorage, mem, genPending, debounce, deferred, events,
           keysMade, prevItem,
           waiting, pendingApi, lastSettle, notified,
           userName, userWatchOld,
           guarding, route, navTarget, lastPage, guardOld,
           elevPc, attempts, invoked, elevResult,
           resourceData, buffer, lastOp >>

\* the session state: the stored record, the key store, the login cookie, the
\* watcher of loggedIn and the calls in flight
sessionVars == << token, bid, priv, pub, loginCookie, cookiesEnabled,
                  watchOld, watchPending, calls, nextKey, seenIn >>

\* what the one-time tokens and the requests add to the state
reqVars == << nextNonce, lastOtp, lastHeader, sent >>

\* what the automatic heartbeat adds to the state
hbVars == << isActive, lastTick >>

\* what the MFA continuation of a login adds to the state
mfaVars == << mfa, loginError, lastUpgrade, submitResult >>

\* the persisted key store of the browsing contexts that share a storage
storeVars == << store, hasStorage, mem, genPending, debounce, deferred,
                events, keysMade, prevItem >>

\* what apiCall() and the waiting flag add to the state
apiVars == << waiting, pendingApi, lastSettle, notified >>

\* what the user module adds to the state: the user name and its watcher
userVars == << userName, userWatchOld >>

\* what the page guard, the router and the last-page storage add to the state
guardVars == << guarding, route, navTarget, lastPage, guardOld >>

\* what elevatedApiCall() and the password prompt add to the state
elevVars == << elevPc, attempts, invoked, elevResult >>

\* what a data buffer adds to the state
bufVars == << resourceData, buffer, lastOp >>

\* the state of the components built on the session
uiVars == << userVars, guardVars, elevVars, bufVars >>

\* the state outside the session, its key store and its calls
nonSessionVars == << reqVars, hbVars, mfaVars, storeVars, apiVars, uiVars >>

\* the state outside the one-time tokens and the requests
nonReqVars == << sessionVars, hbVars, mfaVars, storeVars, apiVars, uiVars >>

\* the state outside the session that the automatic heartbeat leaves alone
hbOthers == << reqVars, mfaVars, storeVars, apiVars, uiVars >>

\* the state outside the session that a login with MFA leaves alone
mfaOthers == << reqVars, hbVars, storeVars, apiVars, uiVars >>

\* the state that the persisted key store of the tabs leaves alone
storeOthers == << sessionVars, reqVars, hbVars, mfaVars, apiVars, uiVars >>

\* the state that apiCall() leaves alone
apiOthers == << sessionVars, reqVars, hbVars, mfaVars, storeVars, uiVars >>

\* the state outside the session and the one-time tokens
otpOthers == << hbVars, mfaVars, storeVars, apiVars, uiVars >>

\* the state outside the session that the user module leaves alone
userOthers == << reqVars, hbVars, mfaVars, storeVars, apiVars,
                 guardVars, elevVars, bufVars >>

\* the state outside the session that the page guard leaves alone
guardOthers == << reqVars, hbVars, mfaVars, storeVars, apiVars,
                  userVars, elevVars, bufVars >>

\* the state that elevatedApiCall() and the apiCall() it runs in leave alone
elevOthers == << sessionVars, reqVars, hbVars, mfaVars, storeVars,
                 userVars, guardVars, bufVars >>

\* the state that a data buffer leaves alone
bufOthers == << sessionVars, reqVars, hbVars, mfaVars, storeVars, apiVars,
                userVars, guardVars, elevVars >>

\* a call in flight: the operation the caller invoked, the await point it is
\* at, the state of the promise the caller holds, and its local variables
NewCall(op, pc, promise) ==
    [ op |-> op, pc |-> pc, promise |-> promise,
      keyData |-> Nil, data |-> Nil, auth |-> FALSE ]

InFlight == BagToSet(calls)

CanStart == BagCardinality(calls) < MaxCalls

Started(r) == calls (+) SetToBag({ r })

Finished(r) == calls (-) SetToBag({ r })

Continued(r, r2) == (calls (-) SetToBag({ r })) (+) SetToBag({ r2 })

\* lodash isEmpty on a string or null
isEmpty(x) == isNil(x) \/ Len(x) = 0

\* variant of ComputeLoggedIn that accepts only the local-account cookie value
ComputeLoggedIn_LocalOnly(tok, cookie, enabled) ==
    LET tokenVal == ~isEmpty(tok)
    IN  IF enabled THEN cookie = 1 /\ tokenVal ELSE tokenVal

\* session.ts: computed loggedIn
ComputeLoggedIn(tok, cookie, enabled) ==
    LET tokenVal == ~isEmpty(tok)
    IN  IF enabled THEN cookie > 0 /\ tokenVal ELSE tokenVal

loggedIn == ComputeLoggedIn(token, loginCookie, cookiesEnabled)

\* session.ts: computed isLocalAccount
isLocalAccount == loginCookie = 1

\* ------------------------------------------------- the persisted key store
\* the browsing contexts that share one storage backend
Tabs == { 1, 2 }

\* JSON.parse("{}"): an object without members
EmptyRecord == [ private |-> Absent, public |-> Absent ]

\* the default value of the key store, and what clearKeys() writes
NullRecord == [ private |-> Nil, public |-> Nil ]

\* what setCredentialAsync leaves of the pair k: both halves exported, base64
PairRecord(k) ==
    [ private |-> ArrayBuffToBase64(ExportPkcs8(k)),
      public |-> ArrayBuffToBase64(ExportSpki(k)) ]

StoredRecords == { EmptyRecord, NullRecord } \cup { PairRecord(k) : k \in KeyIds }

\* JSON text of a member value: null, or the string in quotes
JsonValue(v) == IF v = Nil THEN << 110 >> ELSE << 34 >> \o v \o << 34 >>

\* JSON.stringify of a key store value: braces around the members it has
Stringify(rec) ==
    IF rec.private = Absent /\ rec.public = Absent
    THEN << 123, 125 >>
    ELSE << 123 >> \o JsonValue(rec.private) \o << 44 >>
                   \o JsonValue(rec.public) \o << 125 >>

\* JSON.parse of a text that Stringify wrote
Parse(string) == CHOOSE rec \in StoredRecords : Stringify(rec) = string

\* variant of OnUpdateValue that falls back to the default value
OnUpdateValue_Default(item) == NullRecord

\* createReactiveStorage onUpdate: JSON.parse(string || "{}") of the item
OnUpdateValue(item) == Parse(IF item = Nil THEN << 123, 125 >> ELSE item)

\* no deferred write waits
NoWrite == [ held |-> "none", value |-> EmptyRecord ]

\* a deferred write waits and holds the object that is the current value
LiveWrite == [ held |-> "live", value |-> EmptyRecord ]

\* the routes of the application (fullPath), the one of the login page and
\* the one the application starts on
Routes == { << 47, 97 >>, << 47, 98 >>, << 47, 108 >> }
LoginRoute == << 47, 108 >>
StartRoute == << 47, 97 >>

\* the property names of a resource and the values a property can have
Keys == { "id", "name", "note" }
FieldValues == { << 120 >>, << 121 >> }

\* objects over these names: a property the object does not have is Absent
Objects == [ Keys -> FieldValues \cup { Absent } ]

\* the initialData a data buffer is made for: a resource with an id
InitialData == [ k \in Keys |-> IF k = "id" THEN << 120 >> ELSE Absent ]

\* variant of ActiveAtStart in which the interval runs from the start
ActiveAtStart_Running == TRUE

\* useAutoHeartbeat: the interval is created and paused at once
ActiveAtStart == FALSE

Init ==
    /\ token = Nil
    /\ bid = Nil
    /\ priv = Nil
    /\ pub = Nil
    /\ loginCookie = 0
    /\ cookiesEnabled \in BOOLEAN
    /\ watchOld = FALSE
    /\ watchPending = FALSE
    /\ calls = EmptyBag
    /\ nextKey = 1
    /\ seenIn = FALSE
    /\ nextNonce = 1
    /\ lastOtp = Absent
    /\ lastHeader = Absent
    /\ sent = { }
    /\ isActive = ActiveAtStart
    /\ lastTick = "none"
    /\ mfa = Absent
    /\ loginError = FALSE
    /\ lastUpgrade = Absent
    /\ submitResult = "none"
    /\ store = Nil
    /\ hasStorage = [ t \in Tabs |-> FALSE ]
    /\ mem = [ t \in Tabs |-> EmptyRecord ]
    /\ genPending = [ t \in Tabs |-> FALSE ]
    /\ debounce = [ t \in Tabs |-> FALSE ]
    /\ deferred = [ t \in Tabs |-> NoWrite ]
    /\ events = [ t \in Tabs |-> 0 ]
    /\ keysMade = 0
    /\ prevItem = Nil
    /\ waiting = FALSE
    /\ pendingApi = 0
    /\ lastSettle = "none"
    /\ notified = ""
    /\ userName = Nil
    /\ userWatchOld = FALSE
    /\ guarding = FALSE
    /\ route = StartRoute
    /\ navTarget = Nil
    /\ lastPage = Nil
    /\ guardOld = FALSE
    /\ elevPc = "idle"
    /\ attempts = 0
    /\ invoked = 0
    /\ elevResult = "none"
    /\ resourceData = InitialData
    /\ buffer = InitialData
    /\ lastOp = "none"

\* ---------------------------------------------------------------- helpers
\* no watcher job is queued: a new task starts with an empty job queue
Quiescent == ~watchPending

\* history: loggedIn has been true at some time since the token was stored
TrackSeen ==
    seenIn' = ( /\ ~isNil(token')
                /\ \/ ComputeLoggedIn(token', loginCookie', cookiesEnabled')
                   \/ seenIn /\ token' = token )

\* sessionKeyStore.ts checkAndSetKeysAsync: the check for an existing pair
KeysPresent(p, q) == ~isNil(p) /\ ~isNil(q)

\* sessionKeyStore.ts decryptDataAsync: the key material read at call time
ReadKeyData(p) == Base64ToUint8Array(IF isNil(p) THEN << >> ELSE p)

\* variant of TokenOf that stores the decrypted bytes without encoding them
TokenOf_Raw(decrypted) == decrypted

\* sessionUtils.ts updateCredentials: the value stored as the token
TokenOf(decrypted) == ArrayBuffToBase64(decrypted)

\* variant of WatchCallback that never clears the token
WatchCallback_Keep(value, tok) == tok

\* session.ts watch(loggedIn): the value the callback leaves in the token
WatchCallback(value, tok) == IF value THEN tok ELSE Nil

\* variant of BrowserIdAfter that generates a browser id at every call
BrowserIdAfter_Always(b, rnd) == ArrayToHexString(rnd)

\* sessionUtils.ts checkAndSetCredentials: the browser id after the call
BrowserIdAfter(b, rnd) == IF isNil(b) THEN ArrayToHexString(rnd) ELSE b

\* variant of ClearedState that resets the token to the empty string
ClearedState_EmptyToken == [ token |-> << >>, bid |-> Nil ]

\* variant of ClearedState that resets the token and keeps the browser id
ClearedState_TokenOnly == [ token |-> Nil, bid |-> bid ]

\* state.ts clearState: the record written
ClearedState == [ token |-> Nil, bid |-> Nil ]

\* variant of KeyCheck with the test for an existing pair inverted
KeyCheck_Inverted(r, p, q) ==
    IF KeysPresent(p, q) THEN Started([ r EXCEPT !.pc = "gen" ]) ELSE calls

\* the synchronous part of checkAndSetKeysAsync, run for the call r with the
\* stored halves p and q: r goes on to generate a pair, or returns at once
KeyCheck(r, p, q) ==
    IF KeysPresent(p, q) THEN calls ELSE Started([ r EXCEPT !.pc = "gen" ])

\* the synchronous part of updateCredentials(response): the call suspends in
\* decryptDataAsync with the key material it has read.  login() and
\* heartbeat() await this call and write nothing of this state after it, so
\* the call in flight is updateCredentials whoever made it
DecryptStart(data) ==
    [ NewCall("updateCredentials", "decrypt", "pending") EXCEPT
        !.keyData = ReadKeyData(priv), !.data = data ]

\* ------------------------------------------------------------ key store
\* KeyStore.checkAndSetKeysAsync() called on its own
CheckAndSetKeysAsync ==
    /\ Quiescent /\ CanStart
    /\ calls' = KeyCheck(NewCall("checkAndSetKeysAsync", "gen", "pending"), priv, pub)
    /\ UNCHANGED nonSessionVars
    /\ UNCHANGED << token, bid, priv, pub, loginCookie, cookiesEnabled,
                    watchOld, watchPending, nextKey, seenIn >>

\* generateKey and the two exportKey calls resolved: both halves are stored
SetCredentialDone(r) ==
    /\ Quiescent
    /\ r.pc = "gen"
    /\ nextKey <= MaxKeyGen
    /\ priv' = ArrayBuffToBase64(ExportPkcs8(nextKey))
    /\ pub' = ArrayBuffToBase64(ExportSpki(nextKey))
    /\ nextKey' = nextKey + 1
    /\ calls' = Finished(r)
    /\ UNCHANGED nonSessionVars
    /\ UNCHANGED << token, bid, loginCookie, cookiesEnabled,
                    watchOld, watchPending, seenIn >>

\* generateKey or exportKey rejects
KeyGenFail(r) ==
    /\ Quiescent
    /\ r.pc = "gen"
    /\ calls' = Finished(r)
    /\ UNCHANGED nonSessionVars
    /\ UNCHANGED << token, bid, priv, pub, loginCookie, cookiesEnabled,
                    watchOld, watchPending, nextKey, seenIn >>

\* variant of ClearKeys that resets the private half only
ClearKeys_PrivateOnly ==
    /\ Quiescent
    /\ KeysPresent(priv, pub)
    /\ priv' = Nil
    /\ UNCHANGED nonSessionVars
    /\ UNCHANGED << token, bid, pub, loginCookie, cookiesEnabled,
                    watchOld, watchPending, calls, nextKey, seenIn >>

\* KeyStore.clearKeys()
ClearKeys ==
    /\ Quiescent
    /\ KeysPresent(priv, pub)
    /\ priv' = Nil
    /\ pub' = Nil
    /\ UNCHANGED nonSessionVars
    /\ UNCHANGED << token, bid, loginCookie, cookiesEnabled,
                    watchOld, watchPending, calls, nextKey, seenIn >>

\* KeyStore.regenerateKeysAsync() called on its own: it clears the keys and
\* returns the promise of checkAndSetKeysAsync()
RegenerateKeysAsync ==
    /\ Quiescent /\ CanStart
    /\ priv' = Nil
    /\ pub' = Nil
    /\ calls' = KeyCheck(NewCall("regenerateKeysAsync", "gen", "pending"), priv', pub')
    /\ UNCHANGED nonSessionVars
    /\ UNCHANGED << token, bid, loginCookie, cookiesEnabled,
                    watchOld, watchPending, nextKey, seenIn >>

\* ------------------------------------------------------ session utilities
\* checkAndSetCredentials(): the key check is started and not awaited, so
\* the promise returned to the caller is resolved when the call returns
CheckAndSetCredentials(rnd) ==
    /\ Quiescent /\ CanStart
    /\ calls' = KeyCheck(NewCall("checkAndSetCredentials", "gen", "resolved"), priv, pub)
    /\ bid' = BrowserIdAfter(bid, rnd)
    /\ UNCHANGED nonSessionVars
    /\ UNCHANGED << token, priv, pub, loginCookie, cookiesEnabled,
                    watchOld, watchPending, nextKey, seenIn >>

\* updateCredentials(response) called on its own
UpdateCredentials(data) ==
    /\ Quiescent /\ CanStart
    /\ calls' = Started(DecryptStart(data))
    /\ UNCHANGED nonSessionVars
    /\ UNCHANGED << token, bid, priv, pub, loginCookie, cookiesEnabled,
                    watchOld, watchPending, nextKey, seenIn >>

\* variant of UpdateSettles in which updateCredentials catches the error
UpdateSettles_Swallowed(r) == "resolved"

\* how the promise of updateCredentials settles for the call r: it awaits
\* decryptDataAsync without a catch, so a rejection of importKey or decrypt
\* is its own
UpdateSettles(r) ==
    IF CanDecrypt(r.keyData, r.data) THEN "resolved" ELSE "rejected"

\* importKey and decrypt settled: on success the token is stored
DecryptDone(r) ==
    /\ Quiescent
    /\ r.pc = "decrypt"
    /\ token' = IF UpdateSettles(r) = "resolved" THEN TokenOf(Decrypt(r.data)) ELSE token
    /\ calls' = Finished(r)
    /\ watchPending' = (token' # token)
    /\ UNCHANGED nonSessionVars
    /\ UNCHANGED << bid, priv, pub, loginCookie, cookiesEnabled, watchOld, nextKey >>
    /\ TrackSeen

\* clearLoginState()
ClearLoginState ==
    /\ Quiescent
    /\ token # Nil \/ bid # Nil \/ priv # Nil \/ pub # Nil
    /\ token' = ClearedState.token
    /\ bid' = ClearedState.bid
    /\ priv' = Nil
    /\ pub' = Nil
    /\ watchPending' = (token' # token)
    /\ UNCHANGED nonSessionVars
    /\ UNCHANGED << loginCookie, cookiesEnabled, watchOld, calls, nextKey >>
    /\ TrackSeen

\* ------------------------------------------------------------------- user
\* what the server can answer to a login or keepalive request
Responses ==
    { [ success |-> FALSE, token |-> Nil, mfa |-> FALSE ],
      [ success |-> TRUE, token |-> Nil, mfa |-> FALSE ],
      [ success |-> TRUE, token |-> Nil, mfa |-> TRUE ] }
    \cup { [ success |-> TRUE, token |-> ct, mfa |-> FALSE ] :
             ct \in { x \in Ciphertexts : x[1] < nextKey } }

\* the state AUTHENTICATED: keyed, and logged in
Authenticated == loggedIn /\ KeysPresent(priv, pub) /\ ~isNil(bid)

\* variant of LoginMessage that sends the private half of the pair
LoginMessage_PrivateKey == [ pubkey |-> priv, clientid |-> bid ]

\* user.ts createLoginMessage: the key and the browser id the login request
\* carries, read from the session when login() is called
LoginMessage == [ pubkey |-> pub, clientid |-> bid ]

\* the operations of user.ts that post a request
RequestOps == { "login", "mfa", "logout", "heartbeat", "resetPassword" }

\* what of the session the body of the request of each operation holds (what
\* the caller passes in, user name, password, totp code, is not of the session)
RequestBody(op) ==
    IF op = "login" THEN { LoginMessage.pubkey, LoginMessage.clientid } ELSE { }

\* a request is sent by login(), logout() or heartbeat(); a logout call
\* remembers whether it was made in the state AUTHENTICATED

Post(op) ==
    /\ Quiescent /\ CanStart
    /\ calls' = Started([ NewCall(op, "post", "pending") EXCEPT
                            !.auth = (op = "logout" /\ Authenticated) ])
    /\ UNCHANGED nonSessionVars
    /\ UNCHANGED << token, bid, priv, pub, loginCookie, cookiesEnabled,
                    watchOld, watchPending, nextKey, seenIn >>

Login == Post("login")

Logout == Post("logout")

Heartbeat == Post("heartbeat")

\* variant of LoginFinalizes that tests only the success flag
LoginFinalizes_SuccessOnly(resp) == resp.success

\* login(): the test for a response that completes the login
LoginFinalizes(resp) == resp.success /\ ~isNil(resp.token)

\* login(): the response arrived; with a token in it finalize() calls
\* updateCredentials
LoginResponse(r, resp) ==
    /\ Quiescent
    /\ r.op = "login" /\ r.pc = "post"
    /\ calls' = IF LoginFinalizes(resp)
                THEN Continued(r, DecryptStart(resp.token))
                ELSE Finished(r)
    /\ UNCHANGED nonSessionVars
    /\ UNCHANGED << token, bid, priv, pub, loginCookie, cookiesEnabled,
                    watchOld, watchPending, nextKey, seenIn >>

\* logout(): the response arrived, regenerateKeysAsync() is called
LogoutResponse(r) ==
    /\ Quiescent
    /\ r.op = "logout" /\ r.pc = "post"
    /\ priv' = Nil
    /\ pub' = Nil
    /\ calls' = Continued(r, [ r EXCEPT !.pc = "gen" ])
    /\ UNCHANGED nonSessionVars
    /\ UNCHANGED << token, bid, loginCookie, cookiesEnabled,
                    watchOld, watchPending, nextKey, seenIn >>

\* heartbeat(): the response arrived; on success updateCredentials is called
\* with it, whether or not it carries a token
HeartbeatResponse(r, resp) ==
    /\ Quiescent
    /\ r.op = "heartbeat" /\ r.pc = "post"
    /\ ~resp.mfa
    /\ calls' = IF resp.success
                THEN Continued(r, DecryptStart(resp.token))
                ELSE Finished(r)
    /\ UNCHANGED nonSessionVars
    /\ UNCHANGED << token, bid, priv, pub, loginCookie, cookiesEnabled,
                    watchOld, watchPending, nextKey, seenIn >>

\* variant of PostRejected in which logout() regenerates the keys in a
\* finally block
PostRejected_LogoutRegenerates(r) ==
    IF r.op = "logout" THEN Continued(r, [ r EXCEPT !.pc = "gen" ]) ELSE Finished(r)

\* login(), logout(), heartbeat(): `await post(...)` is in no try block, so
\* the rejection is the call's own and nothing after the await runs
PostRejected(r) == Finished(r)

\* the request of login, logout or heartbeat fails (network error, non-2xx)
PostFail(r) ==
    /\ Quiescent
    /\ r.pc = "post"
    /\ calls' = PostRejected(r)
    /\ UNCHANGED nonSessionVars
    /\ UNCHANGED << token, bid, priv, pub, loginCookie, cookiesEnabled,
                    watchOld, watchPending, nextKey, seenIn >>

\* ------------------------------------------------------------ environment
CookieValues == { 0, 1, 2 }

\* the login cookie is set or removed by the server (or expires)
SetLoginCookie(v) ==
    /\ Quiescent
    /\ v # loginCookie
    /\ loginCookie' = v
    /\ watchPending' = TRUE
    /\ UNCHANGED nonSessionVars
    /\ UNCHANGED << token, bid, priv, pub, cookiesEnabled, watchOld, calls, nextKey >>
    /\ TrackSeen

\* updateSessionConfig(): cookiesEnabled is replaced
SetCookiesEnabled(b) ==
    /\ Quiescent
    /\ b # cookiesEnabled
    /\ cookiesEnabled' = b
    /\ watchPending' = TRUE
    /\ UNCHANGED nonSessionVars
    /\ UNCHANGED << token, bid, priv, pub, loginCookie, watchOld, calls, nextKey >>
    /\ TrackSeen

\* variant of WatcherFlush whose callback also empties the key store
WatcherFlush_ClearsKeys ==
    /\ watchPending
    /\ watchPending' = FALSE
    /\ watchOld' = loggedIn
    /\ token' = IF loggedIn # watchOld THEN WatchCallback(loggedIn, token) ELSE token
    /\ priv' = IF loggedIn # watchOld /\ ~loggedIn THEN Nil ELSE priv
    /\ pub' = IF loggedIn # watchOld /\ ~loggedIn THEN Nil ELSE pub
    /\ UNCHANGED nonSessionVars
    /\ UNCHANGED << bid, loginCookie, cookiesEnabled, calls, nextKey >>
    /\ TrackSeen

\* session.ts watch(loggedIn, ...): the queued job runs
WatcherFlush ==
    /\ watchPending
    /\ watchPending' = FALSE
    /\ watchOld' = loggedIn
    /\ token' = IF loggedIn # watchOld THEN WatchCallback(loggedIn, token) ELSE token
    /\ UNCHANGED nonSessionVars
    /\ UNCHANGED << bid, priv, pub, loginCookie, cookiesEnabled, calls, nextKey >>
    /\ TrackSeen

Next ==
    \/ CheckAndSetKeysAsync
    \/ \E r \in InFlight : SetCredentialDone(r)
    \/ \E r \in InFlight : KeyGenFail(r)
    \/ ClearKeys
    \/ RegenerateKeysAsync
    \/ \E rnd \in RandomBytes : CheckAndSetCredentials(rnd)
    \/ \E ct \in Ciphertexts : ct[1] < nextKey /\ UpdateCredentials(ct)
    \/ \E r \in InFlight : DecryptDone(r)
    \/ ClearLoginState
    \/ Login
    \/ \E r \in InFlight, resp \in Responses : LoginResponse(r, resp)
    \/ Logout
    \/ \E r \in InFlight : LogoutResponse(r)
    \/ Heartbeat
    \/ \E r \in InFlight, resp \in Responses : HeartbeatResponse(r, resp)
    \/ \E r \in InFlight : PostFail(r)
    \/ \E v \in CookieValues : SetLoginCookie(v)
    \/ \E b \in BOOLEAN : SetCookiesEnabled(b)
    \/ WatcherFlush

Spec == Init /\ [][Next]_vars
\* the watcher job queued by a change of a dependency of loggedIn always runs
FairSpec == Spec /\ WF_vars(WatcherFlush)

\* ------------------------------------------- one-time tokens and requests
\* variant of NonceOf that returns the same nonce at every call
NonceOf_Fixed(n) == ArrayToHexString(<< 0 >>)

\* getRandomHex(16): the nonce of the n-th call; the random source is taken
\* never to return the same 16 bytes twice
NonceOf(n) == ArrayToHexString(<< n >>)

\* new SignJWT({ nonce }).sign(sharedKey): the payload and, for the signature,
\* the key that signed it (46 is the separator ".")
SignJWT(nonce, sharedKey) == nonce \o << 46 >> \o sharedKey

\* variant of OneTimeToken without the test for a missing secret
OneTimeToken_NoCheck(tok, n) ==
    SignJWT(NonceOf(n), IF isEmpty(tok) THEN << >> ELSE Base64ToUint8Array(tok))

\* sessionUtils.ts generateOneTimeToken: what the call returns for the stored
\* token tok when the next nonce is the n-th
OneTimeToken(tok, n) ==
    LET sharedKey == IF isEmpty(tok) THEN Nil ELSE Base64ToUint8Array(tok)
    IN  IF sharedKey = Nil THEN Nil ELSE SignJWT(NonceOf(n), sharedKey)

\* generateOneTimeToken draws a nonce only when a secret is stored
NonceDrawn(tok) == ~isEmpty(tok)

\* generateOneTimeToken() called on its own
GenerateOneTimeToken ==
    /\ Quiescent
    /\ NonceDrawn(token) => nextNonce <= MaxNonce
    /\ lastOtp' = OneTimeToken(token, nextNonce)
    /\ nextNonce' = IF NonceDrawn(token) THEN nextNonce + 1 ELSE nextNonce
    /\ UNCHANGED << lastHeader, sent >>
    /\ UNCHANGED nonReqVars

\* variant of Header that asks for a token whether or not the session is
\* logged in
Header_Always(li, tok, n) == OneTimeToken(tok, n)

\* axios/index.ts useAxios, the request interceptor: the token header of a
\* request made when loggedIn is li
Header(li, tok, n) == IF li THEN OneTimeToken(tok, n) ELSE Absent

\* a request is sent through an instance returned by useAxios()
Request ==
    /\ Quiescent
    /\ (loggedIn /\ NonceDrawn(token)) => nextNonce <= MaxNonce
    /\ lastHeader' = Header(loggedIn, token, nextNonce)
    /\ sent' = sent \cup ({ lastHeader' } \ { Absent, Nil })
    /\ nextNonce' = IF loggedIn /\ NonceDrawn(token) THEN nextNonce + 1 ELSE nextNonce
    /\ UNCHANGED lastOtp
    /\ UNCHANGED nonReqVars

\* the operations that change what a one-time token and a request read (the
\* token, the login cookie, cookiesEnabled), and the two that produce them
ReqNext ==
    \/ CheckAndSetKeysAsync
    \/ \E r \in InFlight : SetCredentialDone(r)
    \/ \E ct \in Ciphertexts : ct[1] < nextKey /\ UpdateCredentials(ct)
    \/ \E r \in InFlight : DecryptDone(r)
    \/ ClearLoginState
    \/ \E v \in CookieValues : SetLoginCookie(v)
    \/ \E b \in BOOLEAN : SetCookiesEnabled(b)
    \/ WatcherFlush
    \/ GenerateOneTimeToken
    \/ Request

ReqSpec == Init /\ [][ReqNext]_vars

\* ------------------------------- one-time tokens: the await of jwt.sign
\* variant of SigningKey that decodes the stored secret after the await
SigningKey_ReadAtSign(r, tok) ==
    IF isEmpty(tok) THEN << >> ELSE Base64ToUint8Array(tok)

\* generateOneTimeToken: the key jwt.sign(sharedKey) signs with is the local
\* sharedKey, decoded from the stored token before the first await
SigningKey(r, tok) == r.keyData

\* generateOneTimeToken() up to `await jwt.sign(sharedKey)`: without a
\* secret it returns null; with one, the secret is read and decoded, the
\* nonce drawn and the call suspends
SignStart ==
    /\ Quiescent /\ CanStart
    /\ NonceDrawn(token) => nextNonce <= MaxNonce
    /\ IF NonceDrawn(token)
       THEN /\ calls' = Started([ NewCall("generateOneTimeToken", "sign", "pending")
                                    EXCEPT !.keyData = Base64ToUint8Array(token),
                                           !.data = NonceOf(nextNonce) ])
            /\ nextNonce' = nextNonce + 1
            /\ UNCHANGED lastOtp
       ELSE /\ lastOtp' = Nil
            /\ UNCHANGED << calls, nextNonce >>
    /\ UNCHANGED << token, bid, priv, pub, loginCookie, cookiesEnabled,
                    watchOld, watchPending, nextKey, seenIn >>
    /\ UNCHANGED << lastHeader, sent >>
    /\ UNCHANGED otpOthers

\* jwt.sign settled: the signed token is returned
SignDone(r) ==
    /\ Quiescent
    /\ r.op = "generateOneTimeToken" /\ r.pc = "sign"
    /\ lastOtp' = SignJWT(r.data, SigningKey(r, token))
    /\ calls' = Finished(r)
    /\ UNCHANGED << token, bid, priv, pub, loginCookie, cookiesEnabled,
                    watchOld, watchPending, nextKey, seenIn >>
    /\ UNCHANGED << nextNonce, lastHeader, sent >>
    /\ UNCHANGED otpOthers

\* the calls that write the token, and generateOneTimeToken() with its
\* await point
OtpNext ==
    \/ CheckAndSetKeysAsync
    \/ \E r \in InFlight : SetCredentialDone(r)
    \/ \E ct \in Ciphertexts \cup RenewedCiphertexts :
          ct[1] < nextKey /\ UpdateCredentials(ct)
    \/ \E r \in InFlight : DecryptDone(r)
    \/ ClearLoginState
    \/ WatcherFlush
    \/ SignStart
    \/ \E r \in InFlight : SignDone(r)

OtpSpec == Init /\ [][OtpNext]_vars

\* ----------------------------------------------------- automatic heartbeat
\* the keepalive requests in flight
HbPosts == CopiesIn(NewCall("heartbeat", "post", "pending"), calls)

\* variant of TickSends in which every tick sends a keepalive
TickSends_Always(li) == TRUE

\* useAutoHeartbeat: the callback of the interval, loggedIn ? heartbeat() : null
TickSends(li) == li

\* variant of ActiveAfterReject in which a failed keepalive pauses the interval
ActiveAfterReject_Paused(a) == FALSE

\* the interval after the promise of heartbeat() rejected: the callback of
\* the interval neither awaits nor catches it, so the interval is as it was
ActiveAfterReject(a) == a

\* enable(): resume() of the interval (its delay is positive)
HbEnable ==
    /\ Quiescent
    /\ ~isActive
    /\ isActive' = TRUE
    /\ UNCHANGED << sessionVars, hbOthers, lastTick >>

\* disable(): pause() of the interval
HbDisable ==
    /\ Quiescent
    /\ isActive
    /\ isActive' = FALSE
    /\ UNCHANGED << sessionVars, hbOthers, lastTick >>

\* the interval fires: heartbeat() is called, and posts, if loggedIn is true
HbTick ==
    /\ Quiescent
    /\ isActive
    /\ TickSends(loggedIn) => CanStart
    /\ calls' = IF TickSends(loggedIn)
                THEN Started(NewCall("heartbeat", "post", "pending"))
                ELSE calls
    /\ lastTick' = IF TickSends(loggedIn) THEN "sent" ELSE "skipped"
    /\ UNCHANGED << token, bid, priv, pub, loginCookie, cookiesEnabled,
                    watchOld, watchPending, nextKey, seenIn >>
    /\ UNCHANGED << hbOthers, isActive >>

\* the keepalive request of a tick fails (network error, non-2xx): post()
\* rejects, and with it the promise of heartbeat() that the tick dropped
HbPostFail(r) ==
    /\ Quiescent
    /\ r.op = "heartbeat" /\ r.pc = "post"
    /\ calls' = Finished(r)
    /\ isActive' = ActiveAfterReject(isActive)
    /\ lastTick' = "failed"
    /\ UNCHANGED << token, bid, priv, pub, loginCookie, cookiesEnabled,
                    watchOld, watchPending, nextKey, seenIn >>
    /\ UNCHANGED hbOthers

\* the operations that change loggedIn, the interval, and what becomes of the
\* keepalive requests it sends
HbNext ==
    \/ CheckAndSetKeysAsync
    \/ \E r \in InFlight : SetCredentialDone(r)
    \/ \E ct \in Ciphertexts : ct[1] < nextKey /\ UpdateCredentials(ct)
    \/ \E r \in InFlight : DecryptDone(r)
    \/ ClearLoginState
    \/ \E v \in CookieValues : SetLoginCookie(v)
    \/ \E b \in BOOLEAN : SetCookiesEnabled(b)
    \/ WatcherFlush
    \/ HbEnable
    \/ HbDisable
    \/ HbTick
    \/ \E r \in InFlight, resp \in Responses : HeartbeatResponse(r, resp)
    \/ \E r \in InFlight : HbPostFail(r)

HbSpec == Init /\ [][HbNext]_vars

\* -------------------------------------------------------- login with MFA
\* the upgrade messages the server can issue: signed tokens, here the number
\* of the MFA type, a dot, and the signature
Upgrades == { << 1, 46, 7 >>, << 1, 46, 8 >>, << 2, 46, 9 >> }

\* decodeJwt(mfaMessage): the payload of the token, read without verifying it
decodeJwt(mfaMessage) ==
    [ type |-> IF mfaMessage[1] = 1 THEN "totp" ELSE "unsupported" ]

\* variant of HasHandler in which every type has a handler
HasHandler_Any(type) == TRUE

\* processMfa: the switch on the type of the upgrade, 'totp' or the default
HasHandler(type) == type = "totp"

\* variant of SubmitBody that posts the decoded payload of the upgrade
SubmitBody_Decoded(mfaMessage) == [ upgrade |-> << mfaMessage[1] >> ]

\* Submit: what of the continuation the body of the submission holds (the
\* code and the local time are the caller's)
SubmitBody(mfaMessage) == [ upgrade |-> mfaMessage ]

\* variant of NeedsFinalize that tests only the success flag
NeedsFinalize_SuccessOnly(resp) == resp.success

\* Submit: the test for a response that completes the login
NeedsFinalize(resp) == resp.success /\ ~isNil(resp.token)

\* login(): the response is success without a token and with mfa true;
\* processMfa returns a continuation for the upgrade it carries, or throws,
\* which rejects login()
LoginUpgrade(r, upgrade) ==
    /\ Quiescent
    /\ r.op = "login" /\ r.pc = "post"
    /\ calls' = Finished(r)
    /\ mfa' = IF HasHandler(decodeJwt(upgrade).type) THEN upgrade ELSE mfa
    /\ loginError' = ~HasHandler(decodeJwt(upgrade).type)
    /\ UNCHANGED << token, bid, priv, pub, loginCookie, cookiesEnabled,
                    watchOld, watchPending, nextKey, seenIn >>
    /\ UNCHANGED << mfaOthers, lastUpgrade, submitResult >>

\* Submit(code) of the continuation the caller holds: the submission is posted
MfaSubmit ==
    /\ Quiescent /\ CanStart
    /\ mfa # Absent
    /\ calls' = Started(NewCall("mfa", "post", "pending"))
    /\ lastUpgrade' = SubmitBody(mfa).upgrade
    /\ UNCHANGED << token, bid, priv, pub, loginCookie, cookiesEnabled,
                    watchOld, watchPending, nextKey, seenIn >>
    /\ UNCHANGED << mfaOthers, mfa, loginError, submitResult >>

\* Submit: the response arrived; with success and a token finalize() is
\* awaited, which calls updateCredentials, otherwise the response is returned
MfaResponse(r, resp) ==
    /\ Quiescent
    /\ r.op = "mfa" /\ r.pc = "post"
    /\ ~resp.mfa
    /\ calls' = IF NeedsFinalize(resp)
                THEN Continued(r, [ r EXCEPT !.pc = "finalize",
                                             !.keyData = ReadKeyData(priv),
                                             !.data = resp.token ])
                ELSE Finished(r)
    /\ submitResult' = IF NeedsFinalize(resp) THEN submitResult ELSE "returned"
    /\ UNCHANGED << token, bid, priv, pub, loginCookie, cookiesEnabled,
                    watchOld, watchPending, nextKey, seenIn >>
    /\ UNCHANGED << mfaOthers, mfa, loginError, lastUpgrade >>

\* Submit: finalize() settled; updateCredentials has stored the token and
\* Submit returns the response, or it rejected and Submit rejects
MfaFinalizeDone(r) ==
    /\ Quiescent
    /\ r.op = "mfa" /\ r.pc = "finalize"
    /\ token' = IF UpdateSettles(r) = "resolved" THEN TokenOf(Decrypt(r.data)) ELSE token
    /\ submitResult' = IF UpdateSettles(r) = "resolved" THEN "finalized" ELSE "rejected"
    /\ calls' = Finished(r)
    /\ watchPending' = (token' # token)
    /\ UNCHANGED << bid, priv, pub, loginCookie, cookiesEnabled, watchOld, nextKey >>
    /\ UNCHANGED << mfaOthers, mfa, loginError, lastUpgrade >>
    /\ TrackSeen

\* Submit: the request fails (network error, non-2xx), Submit rejects
MfaPostFail(r) ==
    /\ Quiescent
    /\ r.op = "mfa" /\ r.pc = "post"
    /\ calls' = Finished(r)
    /\ submitResult' = "rejected"
    /\ UNCHANGED << token, bid, priv, pub, loginCookie, cookiesEnabled,
                    watchOld, watchPending, nextKey, seenIn >>
    /\ UNCHANGED << mfaOthers, mfa, loginError, lastUpgrade >>

\* a login that the server answers with a token, a refusal or an upgrade
\* message, and the submissions of the continuation
MfaNext ==
    \/ CheckAndSetKeysAsync
    \/ \E r \in InFlight : SetCredentialDone(r)
    \/ Login
    \/ \E r \in InFlight, resp \in Responses : ~resp.mfa /\ LoginResponse(r, resp)
    \/ \E r \in InFlight, upgrade \in Upgrades : LoginUpgrade(r, upgrade)
    \/ \E r \in InFlight : r.op = "login" /\ PostFail(r)
    \/ \E r \in InFlight : DecryptDone(r)
    \/ MfaSubmit
    \/ \E r \in InFlight, resp \in Responses : MfaResponse(r, resp)
    \/ \E r \in InFlight : MfaFinalizeDone(r)
    \/ \E r \in InFlight : MfaPostFail(r)
    \/ \E v \in CookieValues : SetLoginCookie(v)
    \/ WatcherFlush

MfaSpec == Init /\ [][MfaNext]_vars

\* ---------------------------------------------------------- the user name
\* the email addresses a login response or a profile can carry
Emails == { << 117 >>, << 118 >> }

\* variant of UserWatchCallback that keeps the user name
UserWatchCallback_Keep(value, name) == name

\* user.ts watch(loggedIn, ...): the value the callback leaves in userName
UserWatchCallback(value, name) == IF value = FALSE THEN Nil ELSE name

\* the watcher of user.ts has a change of loggedIn to look at: its job is
\* queued with the one of the session's watcher and runs in the same flush
UserWatchDue == loggedIn # userWatchOld

\* no job of the user module is queued
UserIdle == ~UserWatchDue

\* login(): the response arrived with success and a token, finalize() is
\* awaited and suspends in updateCredentials
LoginFinalize(r, resp) ==
    /\ Quiescent
    /\ r.op = "login" /\ r.pc = "post"
    /\ LoginFinalizes(resp)
    /\ calls' = Continued(r, [ r EXCEPT !.pc = "finalize",
                                        !.keyData = ReadKeyData(priv),
                                        !.data = resp.token ])
    /\ UNCHANGED << token, bid, priv, pub, loginCookie, cookiesEnabled,
                    watchOld, watchPending, nextKey, seenIn >>
    /\ UNCHANGED userVars
    /\ UNCHANGED userOthers

\* finalize() of a login: updateCredentials settled; when it stored the
\* token, the user name is set to the email of the response, and when it
\* rejected, finalize rejects before that
LoginFinalizeDone(r, email) ==
    /\ Quiescent
    /\ r.op = "login" /\ r.pc = "finalize"
    /\ token' = IF UpdateSettles(r) = "resolved" THEN TokenOf(Decrypt(r.data)) ELSE token
    /\ userName' = IF UpdateSettles(r) = "resolved" THEN email ELSE userName
    /\ calls' = Finished(r)
    /\ watchPending' = (token' # token)
    /\ UNCHANGED << bid, priv, pub, loginCookie, cookiesEnabled, watchOld, nextKey >>
    /\ UNCHANGED userWatchOld
    /\ UNCHANGED userOthers
    /\ TrackSeen

\* getProfile(): the profile arrived; the user name becomes its email, if it
\* has one
GetProfile(email) ==
    /\ Quiescent
    /\ userName' = IF isNil(email) THEN userName ELSE email
    /\ UNCHANGED sessionVars
    /\ UNCHANGED userWatchOld
    /\ UNCHANGED userOthers

\* user.ts watch(loggedIn, ...): the job runs, after the one of the session
UserWatcherFlush ==
    /\ Quiescent
    /\ UserWatchDue
    /\ userWatchOld' = loggedIn
    /\ userName' = UserWatchCallback(loggedIn, userName)
    /\ UNCHANGED sessionVars
    /\ UNCHANGED userOthers

\* logins that the server answers with a token or a refusal, the profile,
\* the login cookie, and the two watchers of loggedIn
UserNext ==
    \/ UserIdle /\ CheckAndSetKeysAsync
    \/ \E r \in InFlight : UserIdle /\ SetCredentialDone(r)
    \/ UserIdle /\ Login
    \/ \E r \in InFlight, resp \in Responses :
          UserIdle /\ ~LoginFinalizes(resp) /\ ~resp.mfa /\ LoginResponse(r, resp)
    \/ \E r \in InFlight, resp \in Responses : UserIdle /\ LoginFinalize(r, resp)
    \/ \E r \in InFlight, email \in Emails : UserIdle /\ LoginFinalizeDone(r, email)
    \/ \E r \in InFlight : UserIdle /\ PostFail(r)
    \/ \E email \in Emails \cup { Absent } : UserIdle /\ GetProfile(email)
    \/ \E v \in CookieValues : UserIdle /\ SetLoginCookie(v)
    \/ UserIdle /\ ClearLoginState
    \/ WatcherFlush
    \/ UserWatcherFlush

UserSpec == Init /\ [][UserNext]_vars

\* --------------------------------------------------------- the page guard
\* variant of GuardRedirects that redirects at every change of loggedIn
GuardRedirects_Always(value) == TRUE

\* usePageGuard: the test of the initial check (!session.loggedIn.value)
\* and of the watcher callback (value === false)
GuardRedirects(value) == value = FALSE

\* LastPage pushAndNavigate(route): what the last-page storage holds after
\* push() stored router.currentRoute.value.fullPath (setItem replaces the item)
PushedPage == route

\* the watcher of the guard has a change of loggedIn to look at
GuardWatchDue == guarding /\ loggedIn # guardOld

\* no job of the guard is queued
GuardIdle == ~GuardWatchDue

\* usePageGuard(loginRoute) is called on a page of the application: the
\* initial check, then the watcher is set up
UsePageGuard ==
    /\ Quiescent
    /\ ~guarding
    /\ route # LoginRoute /\ navTarget = Nil
    /\ guarding' = TRUE
    /\ guardOld' = loggedIn
    /\ lastPage' = IF GuardRedirects(loggedIn) THEN PushedPage ELSE lastPage
    /\ navTarget' = IF GuardRedirects(loggedIn) THEN LoginRoute ELSE navTarget
    /\ UNCHANGED route
    /\ UNCHANGED sessionVars
    /\ UNCHANGED guardOthers

\* watch(session.loggedIn, ...) of the guard: the job runs, after the one of
\* the session
GuardWatcherFlush ==
    /\ Quiescent
    /\ GuardWatchDue
    /\ guardOld' = loggedIn
    /\ lastPage' = IF GuardRedirects(loggedIn) THEN PushedPage ELSE lastPage
    /\ navTarget' = IF GuardRedirects(loggedIn) THEN LoginRoute ELSE navTarget
    /\ UNCHANGED << guarding, route >>
    /\ UNCHANGED sessionVars
    /\ UNCHANGED guardOthers

\* the navigation started by router.push() completes
NavigationDone ==
    /\ Quiescent
    /\ navTarget # Nil
    /\ route' = navTarget
    /\ navTarget' = Nil
    /\ UNCHANGED << guarding, lastPage, guardOld >>
    /\ UNCHANGED sessionVars
    /\ UNCHANGED guardOthers

\* LastPage gotoLastPage(): the stored page is popped and navigated to
GotoLastPage ==
    /\ Quiescent
    /\ lastPage # Nil
    /\ lastPage' = Nil
    /\ navTarget' = lastPage
    /\ UNCHANGED << guarding, route, guardOld >>
    /\ UNCHANGED sessionVars
    /\ UNCHANGED guardOthers

\* the application navigates to a page
Navigate(rt) ==
    /\ Quiescent
    /\ rt # route /\ rt # LoginRoute
    /\ navTarget' = rt
    /\ UNCHANGED << guarding, route, lastPage, guardOld >>
    /\ UNCHANGED sessionVars
    /\ UNCHANGED guardOthers

\* the calls and events that change loggedIn, the router, and the guard
GuardNext ==
    \/ GuardIdle /\ CheckAndSetKeysAsync
    \/ \E r \in InFlight : GuardIdle /\ SetCredentialDone(r)
    \/ \E ct \in Ciphertexts : GuardIdle /\ ct[1] < nextKey /\ UpdateCredentials(ct)
    \/ \E r \in InFlight : GuardIdle /\ DecryptDone(r)
    \/ \E v \in CookieValues : GuardIdle /\ SetLoginCookie(v)
    \/ WatcherFlush
    \/ UsePageGuard
    \/ GuardWatcherFlush
    \/ GuardIdle /\ NavigationDone
    \/ GuardIdle /\ GotoLastPage
    \/ \E rt \in Routes : GuardIdle /\ Navigate(rt)

GuardSpec == Init /\ [][GuardNext]_vars

\* ------------------------------------------ tabs sharing a storage backend
\* createReplaceableStorage getItem: the item of the backend, null without one
GetItem(t) == IF hasStorage[t] THEN store ELSE Nil

\* the deferred write of tab t after the value of its storage element was
\* replaced by a new object: a write that held the current object now holds
\* the old one, with the members it had
AfterReplace(t) ==
    IF deferred[t].held = "live"
    THEN [ held |-> "old", value |-> mem[t] ]
    ELSE deferred[t]

\* the value the deferred write of tab t converts to text when it runs
Captured(t) == IF deferred[t].held = "live" THEN mem[t] ELSE deferred[t].value

\* configureApi() in tab t with the shared storage: setStorage() runs onUpdate,
\* which replaces the value by what the storage holds, and
\* checkAndSetCredentials() starts a key generation if that has no pair
ConfigureApi(t) ==
    /\ ~hasStorage[t]
    /\ hasStorage' = [ hasStorage EXCEPT ![t] = TRUE ]
    /\ mem' = [ mem EXCEPT ![t] = OnUpdateValue(store) ]
    /\ debounce' = [ debounce EXCEPT ![t] = TRUE ]
    /\ deferred' = [ deferred EXCEPT ![t] = AfterReplace(t) ]
    /\ genPending' = [ genPending EXCEPT ![t] =
                          ~KeysPresent(mem'[t].private, mem'[t].public) ]
    /\ UNCHANGED << store, events, keysMade, prevItem >>
    /\ UNCHANGED storeOthers

\* generateKey and the two exports settled in tab t: setCredentialAsync
\* writes both members of the current value
KeyPairStored(t) ==
    /\ genPending[t]
    /\ keysMade' = keysMade + 1
    /\ mem' = [ mem EXCEPT ![t] = PairRecord(keysMade') ]
    /\ genPending' = [ genPending EXCEPT ![t] = FALSE ]
    /\ debounce' = [ debounce EXCEPT ![t] = TRUE ]
    /\ UNCHANGED << store, hasStorage, deferred, events, prevItem >>
    /\ UNCHANGED storeOthers

\* the debounce timer of the watcher of tab t expires: the callback runs with
\* the value of the last change and defers the write
DebounceFire(t) ==
    /\ debounce[t]
    /\ deferred[t].held = "none"
    /\ debounce' = [ debounce EXCEPT ![t] = FALSE ]
    /\ deferred' = [ deferred EXCEPT ![t] = LiveWrite ]
    /\ UNCHANGED << store, hasStorage, mem, genPending, events, keysMade,
                    prevItem >>
    /\ UNCHANGED storeOthers

\* the deferred write of tab t runs: the value it holds is converted to text
\* and written if the text differs from the item; the other tabs get a
\* storage event
DeferRun(t) ==
    /\ deferred[t].held # "none"
    /\ deferred' = [ deferred EXCEPT ![t] = NoWrite ]
    /\ IF Stringify(Captured(t)) # GetItem(t) /\ hasStorage[t]
       THEN /\ store' = Stringify(Captured(t))
            /\ prevItem' = store
            /\ events' = [ u \in Tabs |-> IF u = t THEN events[u] ELSE events[u] + 1 ]
       ELSE UNCHANGED << store, prevItem, events >>
    /\ UNCHANGED << hasStorage, mem, genPending, debounce, keysMade >>
    /\ UNCHANGED storeOthers

\* a storage event is delivered to tab t: onUpdate replaces the value by what
\* the storage holds now
StorageEvent(t) ==
    /\ events[t] > 0
    /\ events' = [ events EXCEPT ![t] = events[t] - 1 ]
    /\ mem' = [ mem EXCEPT ![t] = OnUpdateValue(GetItem(t)) ]
    /\ debounce' = [ debounce EXCEPT ![t] = TRUE ]
    /\ deferred' = [ deferred EXCEPT ![t] = AfterReplace(t) ]
    /\ UNCHANGED << store, hasStorage, genPending, keysMade, prevItem >>
    /\ UNCHANGED storeOthers

StoreNext ==
    \E t \in Tabs :
        \/ ConfigureApi(t)
        \/ KeyPairStored(t)
        \/ DebounceFire(t)
        \/ DeferRun(t)
        \/ StorageEvent(t)

StoreSpec == Init /\ [][StoreNext]_vars

\* the timers expire, the events are delivered and generateKey settles
FairStoreSpec ==
    /\ StoreSpec
    /\ \A t \in Tabs :
          /\ WF_vars(KeyPairStored(t))
          /\ WF_vars(DebounceFire(t))
          /\ WF_vars(DeferRun(t))
          /\ WF_vars(StorageEvent(t))

\* ------------------------------------------------------------- apiCall
\* the HTTP status codes of a response attached to an error
Statuses == { 200, 400, 401, 403, 404, 409, 410, 422, 423, 429, 500, 502 }

\* what the callback of apiCall() can throw: null or undefined, an error
\* without a response (a network error or another one), or an error of axios
\* with the response attached, which may list errors or give a result text
Thrown ==
    { [ kind |-> k, status |-> 0, errors |-> FALSE, result |-> FALSE ] :
        k \in { "nullish", "Network Error", "other" } }
    \cup { [ kind |-> "response", status |-> st, errors |-> e, result |-> r ] :
             st \in Statuses, e \in BOOLEAN, r \in BOOLEAN }

\* useApiCall: the default message of the switch on response.status
StatusMessage(status) ==
    CASE status = 200 -> ""
      [] status = 400 -> "Bad Request"
      [] status = 422 -> "The server did not accept the request"
      [] status = 401 -> "You are not logged in."
      [] status = 403 -> "Please clear you cookies/cache and try again"
      [] status = 404 -> "The requested resource was not found"
      [] status = 409 -> "Please clear you cookies/cache and try again"
      [] status = 410 -> "The requested resource has expired"
      [] status = 423 -> "The requested resource is locked"
      [] status = 429 -> "You have made too many requests, please try again later"
      [] status = 500 -> "There was an error processing your request"
      [] OTHER -> "An unknown error occured"

\* useApiCall: the notification published in the catch block for the error e
\* (e is not null or undefined)
Notification(e) ==
    IF e.kind = "Network Error" THEN "Please check your internet connection"
    ELSE IF e.kind = "other" THEN "An unknown error occured"
    ELSE IF e.errors THEN "Please verify your form"
    ELSE IF e.result THEN "response.data.result"
    ELSE StatusMessage(e.status)

\* useApiCall: how the promise of apiCall() settles when the callback threw
\* e: the catch block reads errMsg.response, which throws a TypeError for
\* null and undefined; otherwise it notifies and returns undefined
CatchSettles(e) == IF e.kind = "nullish" THEN "rejected" ELSE "undefined"

\* apiCall(callback): the flag is set, the notification closed, and the
\* callback is awaited
ApiCallStart ==
    /\ pendingApi < MaxApiCalls
    /\ pendingApi' = pendingApi + 1
    /\ waiting' = TRUE
    /\ notified' = ""
    /\ UNCHANGED lastSettle
    /\ UNCHANGED apiOthers

\* the callback of a pending apiCall() returned: its result is returned, and
\* the finally block clears the flag
ApiCallReturn ==
    /\ pendingApi > 0
    /\ pendingApi' = pendingApi - 1
    /\ lastSettle' = "result"
    /\ waiting' = FALSE
    /\ UNCHANGED notified
    /\ UNCHANGED apiOthers

\* the callback of a pending apiCall() threw e: the catch block runs, then
\* the finally block clears the flag
ApiCallThrow(e) ==
    /\ pendingApi > 0
    /\ pendingApi' = pendingApi - 1
    /\ lastSettle' = CatchSettles(e)
    /\ notified' = IF CatchSettles(e) = "undefined" THEN Notification(e) ELSE notified
    /\ waiting' = FALSE
    /\ UNCHANGED apiOthers

ApiNext ==
    \/ ApiCallStart
    \/ ApiCallReturn
    \/ \E e \in Thrown : ApiCallThrow(e)

ApiSpec == Init /\ [][ApiNext]_vars

\* ------------------------------------------------------- elevatedApiCall
\* variant of Retries in which no error reveals the prompt again
Retries_Never(e) == FALSE

\* elevatedApiCall: the errors of the callback that the catch block of the
\* loop keeps: an AxiosError whose response has the status 401
Retries(e) == e.kind = "response" /\ e.status = 401

\* elevatedApiCall: the title of the error shown for a 401
FormErrorTitle(e) == IF e.result THEN "response.data.result" ELSE ""

\* elevatedApiCall(callback): apiCall() sets the flag and closes the
\* notification, its callback enters the loop and reveals the prompt
ElevatedApiCall ==
    /\ elevPc = "idle"
    /\ pendingApi < MaxApiCalls
    /\ pendingApi' = pendingApi + 1
    /\ waiting' = TRUE
    /\ notified' = ""
    /\ elevPc' = "prompt"
    /\ attempts' = 1
    /\ invoked' = 0
    /\ elevResult' = "pending"
    /\ UNCHANGED lastSettle
    /\ UNCHANGED elevOthers

\* the prompt is cancelled: the loop is left, undefined is returned through
\* apiCall(), whose finally block clears the flag
PromptCancel ==
    /\ elevPc = "prompt"
    /\ elevPc' = "idle"
    /\ elevResult' = "undefined"
    /\ lastSettle' = "result"
    /\ pendingApi' = pendingApi - 1
    /\ waiting' = FALSE
    /\ UNCHANGED << notified, attempts, invoked >>
    /\ UNCHANGED elevOthers

\* the prompt is confirmed: the callback is invoked with the password
PromptConfirm ==
    /\ elevPc = "prompt"
    /\ elevPc' = "callback"
    /\ invoked' = invoked + 1
    /\ UNCHANGED << attempts, elevResult >>
    /\ UNCHANGED apiVars
    /\ UNCHANGED elevOthers

\* the callback returned: its result is returned through apiCall()
CallbackReturn ==
    /\ elevPc = "callback"
    /\ elevPc' = "idle"
    /\ elevResult' = "value"
    /\ lastSettle' = "result"
    /\ pendingApi' = pendingApi - 1
    /\ waiting' = FALSE
    /\ UNCHANGED << notified, attempts, invoked >>
    /\ UNCHANGED elevOthers

\* the callback threw e: for a 401 the error is shown and the prompt revealed
\* again; every other error is thrown on to the catch block of apiCall()
CallbackThrow(e) ==
    /\ elevPc = "callback"
    /\ IF Retries(e)
       THEN /\ attempts < MaxAttempts
            /\ elevPc' = "prompt"
            /\ attempts' = attempts + 1
            /\ notified' = FormErrorTitle(e)
            /\ UNCHANGED << elevResult, lastSettle, pendingApi, waiting >>
       ELSE /\ elevPc' = "idle"
            /\ elevResult' = CatchSettles(e)
            /\ lastSettle' = CatchSettles(e)
            /\ notified' = IF CatchSettles(e) = "undefined"
                           THEN Notification(e) ELSE notified
            /\ pendingApi' = pendingApi - 1
            /\ waiting' = FALSE
            /\ UNCHANGED attempts
    /\ UNCHANGED invoked
    /\ UNCHANGED elevOthers

ElevNext ==
    \/ ElevatedApiCall
    \/ PromptCancel
    \/ PromptConfirm
    \/ CallbackReturn
    \/ \E e \in Thrown : CallbackThrow(e)

ElevSpec == Init /\ [][ElevNext]_vars

\* ---------------------------------------------------------- useDataBuffer
\* lodash assign(target, source): the own properties of source are written
\* to target; a property that only target has stays
Assign(target, source) ==
    [ k \in Keys |-> IF source[k] # Absent THEN source[k] ELSE target[k] ]

\* lodash isEqual of two objects: the same properties with the same values
isEqual(a, b) == a = b

\* dataBuffer: computed(() => !isEqual(buffer, data))
modified == ~isEqual(buffer, resourceData)

\* the form writes the property k of the buffer, one it has or a new one
EditBuffer(k, v) ==
    /\ buffer[k] # v
    /\ buffer' = [ buffer EXCEPT ![k] = v ]
    /\ lastOp' = "edit"
    /\ UNCHANGED resourceData
    /\ UNCHANGED bufOthers

\* apply(newData): assign(data, newData), then assign(buffer, data)
Apply(newData) ==
    /\ resourceData' = Assign(resourceData, newData)
    /\ buffer' = Assign(buffer, resourceData')
    /\ lastOp' = "apply"
    /\ UNCHANGED bufOthers

\* revert(): assign(buffer, data)
Revert ==
    /\ buffer' = Assign(buffer, resourceData)
    /\ lastOp' = "revert"
    /\ UNCHANGED resourceData
    /\ UNCHANGED bufOthers

BufNext ==
    \/ \E k \in Keys, v \in FieldValues : EditBuffer(k, v)
    \/ \E newData \in Objects : Apply(newData)
    \/ Revert

BufSpec == Init /\ [][BufNext]_vars

\* ----------------------------------------------------------------- claims
\* C1: in every reachable state loggedIn equals (login cookie > 0 and token
\* non-empty) when cookiesEnabled, and (token non-empty) otherwise; it is
\* false when no token is stored, and when cookies are enabled and the login
\* cookie is 0.
C1_LoggedInDerived ==
    /\ loggedIn = IF cookiesEnabled
                  THEN loginCookie > 0 /\ token # Nil /\ token # << >>
                  ELSE token # Nil /\ token # << >>
    /\ token = Nil => ~loggedIn
    /\ cookiesEnabled /\ loginCookie = 0 => ~loggedIn

C1_Witness == loggedIn /\ cookiesEnabled /\ loginCookie = 2

\* C2 (as claimed): in every reachable state with no watcher pending,
\* loggedIn = false implies the token is null.
C2_LoggedOutNoToken == ~watchPending /\ ~loggedIn => token = Nil

\* C2 (amended): in every reachable state with no watcher pending,
\* loggedIn = false implies the token is null or was stored after loggedIn
\* was last true (loggedIn has never been true under it).
C2_LoggedOutNoSeenToken == ~watchPending /\ ~loggedIn => (token = Nil \/ ~seenIn)

C2_Witness == ~watchPending /\ ~loggedIn /\ token # Nil /\ cookiesEnabled

\* C3: whenever loggedIn has changed from true to false (the watcher last
\* saw true), the token is eventually null.
C3_ClearedEventually == (watchOld /\ ~loggedIn) ~> (token = Nil)

C3_Witness == watchPending /\ watchOld /\ ~loggedIn /\ token # Nil /\ loginCookie = 0

\* C4: a step that changes the token to a non-null value is the completion
\* of updateCredentials (on its own, or inside login or heartbeat).
C4_OnlyUpdateSetsToken ==
    [][ (token' # token /\ token' # Nil) => \E r \in InFlight : DecryptDone(r) ]_vars

C4_Witness == token # Nil /\ ~watchPending /\ bid # Nil /\ calls = EmptyBag

\* C5: when updateCredentials completes for a ciphertext of secret s made
\* for the key pair whose private half it read from the store, the token is
\* the base64 encoding of s, and loggedIn is true if cookies are disabled or
\* the login cookie is > 0.
C5_UpdateStoresSecret ==
    [][ \A r \in InFlight : \A k \in KeyIds, s \in Secrets :
          (DecryptDone(r) /\ r.data = Ciphertext(k, s) /\ r.keyData = ExportPkcs8(k))
          => /\ token' = ArrayBuffToBase64(s)
             /\ (cookiesEnabled' => loginCookie' > 0) => loggedIn' ]_vars

C5_Witness ==
    /\ token = << 5, 60, 36, 64 >>
    /\ loggedIn /\ watchPending /\ ~watchOld

\* C6: a generated pair is stored only when no pair is stored, so that
\* without a clear in between at most one pair is generated and stored; and
\* checkAndSetKeysAsync called with both halves stored leaves them unchanged.
C6_GeneratedOnce ==
    [][ /\ \A r \in InFlight : SetCredentialDone(r) => ~KeysPresent(priv, pub)
        /\ (CheckAndSetKeysAsync /\ KeysPresent(priv, pub)) => UNCHANGED << priv, pub >>
      ]_vars

\* C7: once the promise of checkAndSetCredentials() has resolved, publicKey
\* and browserId are non-null and loggedIn is false.
C7_BootstrapDone ==
    \A r \in InFlight :
        (r.op = "checkAndSetCredentials" /\ r.promise = "resolved")
        => (pub # Nil /\ bid # Nil /\ ~loggedIn)

\* C8: a failure of key generation or export during checkAndSetCredentials()
\* rejects the promise the caller holds.
C8_FailureSurfaced ==
    [][ \A r \in InFlight :
          (KeyGenFail(r) /\ r.op = "checkAndSetCredentials") => r.promise = "pending"
      ]_vars

\* C9: when logout() called in the state AUTHENTICATED completes, a key pair
\* and a browser id are stored, no token is stored and loggedIn is false.
C9_LogoutToKeyed ==
    [][ \A r \in InFlight :
          (SetCredentialDone(r) /\ r.op = "logout" /\ r.auth)
          => (KeysPresent(priv', pub') /\ bid' # Nil /\ token' = Nil /\ ~loggedIn')
      ]_vars

\* C10: whenever a token is stored the key store holds the pair that
\* decrypted it: after every step a stored token has a stored pair, a token
\* stored by the step was decrypted with the stored private key, and a token
\* kept by the step keeps its pair.
C10_TokenHasItsKeys ==
    [][ token' # Nil =>
          /\ KeysPresent(priv', pub')
          /\ token' = token => priv' = priv
          /\ token' # token =>
                \E r \in InFlight : DecryptDone(r) /\ ArrayBuffToBase64(r.keyData) = priv'
      ]_vars

\* C11: regenerateKeysAsync() (on its own or inside logout) empties the key
\* store at once and goes on to generate; when it completes, the stored public
\* key is one that was never stored before, so it differs from the one stored
\* before the call; and an updateCredentials call whose ciphertext was made
\* for another pair than the one it read from the store stores no token.
C11_RegeneratedKeyIsNew ==
    /\ [](pub # Nil =>
            \E k \in KeyIds : k < nextKey /\ pub = ArrayBuffToBase64(ExportSpki(k)))
    /\ [][
          /\ RegenerateKeysAsync =>
                /\ pub' = Nil
                /\ \E c \in BagToSet(calls') :
                      /\ c.op = "regenerateKeysAsync" /\ c.pc = "gen"
                      /\ CopiesIn(c, calls') = CopiesIn(c, calls) + 1
          /\ \A r \in InFlight :
                (SetCredentialDone(r) /\ r.op \in { "regenerateKeysAsync", "logout" })
                => /\ pub' # Nil /\ pub' # pub
                   /\ \A k \in KeyIds :
                         k < nextKey => pub' # ArrayBuffToBase64(ExportSpki(k))
          /\ \A u \in InFlight :
                (DecryptDone(u) /\ u.data \in Ciphertexts
                   /\ u.keyData # ExportPkcs8(u.data[1]))
                => token' = token
       ]_vars

C11_Witness ==
    /\ nextKey = 3
    /\ pub = ArrayBuffToBase64(ExportSpki(2))
    /\ token = Nil
    /\ \E r \in InFlight :
          r.pc = "decrypt" /\ r.data \in Ciphertexts /\ r.data[1] = 1
          /\ r.keyData = ExportPkcs8(2)

\* C12: clearLoginState() leaves token, browser id, private key and public
\* key all null in one step (token and browser id are reset by the same
\* write), starts no call and generates no key pair.
C12_ClearLoginStateClearsAll ==
    [][ ClearLoginState =>
          /\ token' = Nil /\ bid' = Nil /\ priv' = Nil /\ pub' = Nil
          /\ calls' = calls /\ nextKey' = nextKey
      ]_vars

C12_Witness ==
    /\ token = Nil /\ bid = Nil /\ priv = Nil /\ pub = Nil
    /\ watchOld /\ watchPending /\ nextKey = 2

\* C13: a login() called after the keys have been cleared (a pair has been
\* generated before and none is stored now) sends a request that carries a
\* non-null public key and a non-null browser id.
C13_LoginCarriesKey ==
    [][ (Login /\ nextKey > 1 /\ ~KeysPresent(priv, pub))
          => (LoginMessage.pubkey # Nil /\ LoginMessage.clientid # Nil)
      ]_vars

\* C14: a call of generateOneTimeToken() returns null if and only if no
\* secret is stored when it is called, and otherwise returns a token that
\* carries the nonce of this call and is signed with the stored secret.
C14_NullIffNoSecret ==
    [][ GenerateOneTimeToken =>
          /\ (lastOtp' = Nil) <=> (token = Nil)
          /\ token # Nil =>
                \E s \in Secrets :
                    /\ token = ArrayBuffToBase64(s)
                    /\ lastOtp' = NonceOf(nextNonce) \o << 46 >> \o s
      ]_vars

C14_Witness ==
    lastOtp = Nil /\ token = Nil /\ sent = { } /\ nextNonce = 2

C16_HeaderIffLoggedIn ==
    [][ Request =>
          IF loggedIn
          THEN lastHeader' # Absent /\ lastHeader' # Nil /\ lastHeader' \in sent'
          ELSE lastHeader' = Absent /\ sent' = sent
      ]_vars

C16_Witness ==
    /\ lastHeader = Absent /\ sent # { }
    /\ ~loggedIn /\ token # Nil /\ ~watchPending

\* C17: when the decryption inside updateCredentials fails (no private key
\* was stored, or the ciphertext was not made for the stored key), the promise
\* of updateCredentials rejects, token, key pair and browser id are left as
\* they were, and the session is left ready for the next operation (the call
\* is over and no watcher job is queued).
C17_FailedUpdateLeavesState ==
    [][ \A r \in InFlight :
          (DecryptDone(r) /\ ~CanDecrypt(r.keyData, r.data))
          => /\ UpdateSettles(r) = "rejected"
             /\ token' = token /\ priv' = priv /\ pub' = pub /\ bid' = bid
             /\ CopiesIn(r, calls') = CopiesIn(r, calls) - 1
             /\ Quiescent'
      ]_vars

C17_Witness ==
    /\ token # Nil /\ KeysPresent(priv, pub) /\ bid # Nil
    /\ \E r \in InFlight :
          /\ r.pc = "decrypt" /\ r.data \in Ciphertexts
          /\ r.keyData = Base64ToUint8Array(priv)
          /\ ~CanDecrypt(r.keyData, r.data)

\* C18: in every reachable state no request of login, MFA submit, logout,
\* heartbeat or resetPassword holds the stored private key, encoded or raw,
\* and the only key of a generated pair that any of them holds is the stored
\* public key, in the login message.
C18_PrivateKeyNotSent ==
    \A op \in RequestOps : \A x \in RequestBody(op) :
        /\ priv # Nil => (x # priv /\ x # Base64ToUint8Array(priv))
        /\ \A k \in KeyIds :
              /\ x # ArrayBuffToBase64(ExportPkcs8(k)) /\ x # ExportPkcs8(k)
              /\ x \in { ArrayBuffToBase64(ExportSpki(k)), ExportSpki(k) }
                   => (op = "login" /\ x = pub)

C18_Witness ==
    /\ priv # Nil /\ LoginMessage.pubkey # Nil
    /\ \E r \in InFlight : r.op = "login" /\ r.pc = "post"

\* C19: a stored browser id is never replaced by a different value: every
\* step leaves it unchanged, except clearLoginState(), which sets it to null.
C19_BrowserIdKept ==
    [][ bid # Nil => (bid' = bid \/ (bid' = Nil /\ ClearLoginState)) ]_vars

C19_Witness ==
    /\ bid # Nil /\ loggedIn /\ nextKey = 3 /\ KeysPresent(priv, pub)
    /\ ~watchPending /\ calls = EmptyBag

\* C20: when the keepalive response arrives, heartbeat() calls
\* updateCredentials if and only if the response has success true and carries
\* a token.
C20_HeartbeatUpdatesOnToken ==
    [][ \A r \in InFlight : \A resp \in Responses :
          HeartbeatResponse(r, resp) =>
            ( (\E c \in BagToSet(calls') :
                  /\ c.op = "updateCredentials" /\ c.pc = "decrypt"
                  /\ CopiesIn(c, calls') > CopiesIn(c, calls))
              <=> (resp.success /\ resp.token # Nil) )
      ]_vars

\* C21: a tick of the heartbeat interval sends a keepalive request only if
\* loggedIn is true when it fires: a keepalive request is started only in a
\* state where loggedIn is true, and a tick that fires while loggedIn is false
\* starts no call at all (nothing is sent, nothing can reject)
C21_TickGatedOnLoggedIn ==
    [][ /\ HbPosts' > HbPosts => loggedIn
        /\ (HbTick /\ ~loggedIn) => calls' = calls /\ lastTick' = "skipped"
        /\ (HbTick /\ loggedIn) => HbPosts' = HbPosts + 1 /\ lastTick' = "sent"
      ]_vars

\* a tick fired while logged out, the interval running, and it sent nothing
C21_Witness == lastTick = "skipped" /\ isActive /\ ~loggedIn /\ HbPosts = 0

C23_FailureKeepsTimer ==
    [][ /\ (\E r \in InFlight : HbPostFail(r)) =>
              /\ isActive' = isActive
              /\ HbPosts' = HbPosts - 1
              /\ BagCardinality(calls') = BagCardinality(calls) - 1
        /\ (lastTick = "failed" /\ HbTick /\ loggedIn) =>
              /\ lastTick' = "sent"
              /\ HbPosts' = HbPosts + 1
      ]_vars

\* a keepalive failed, the interval still runs and the user is logged in
C23_Witness == lastTick = "failed" /\ isActive /\ loggedIn /\ HbPosts = 0


\* the MFA submissions in flight
MfaPosts == CopiesIn(NewCall("mfa", "post", "pending"), calls)

\* C24: when login receives an upgrade message whose type has no handler,
\* login() rejects and the flow stops: no continuation is returned for that
\* message, no call is left in flight for it, no submission is posted and the
\* stored secret is not touched; no continuation and no submission ever
\* carries an upgrade of an unsupported type
C24_UnsupportedMfaStops ==
    /\ [] ( /\ mfa # Absent => decodeJwt(mfa).type = "totp"
            /\ lastUpgrade # Absent => decodeJwt(lastUpgrade).type = "totp" )
    /\ [][ \A r \in InFlight, upgrade \in Upgrades :
             (LoginUpgrade(r, upgrade) /\ decodeJwt(upgrade).type # "totp") =>
                 /\ loginError'
                 /\ mfa' = mfa /\ mfa' # upgrade
                 /\ calls' = Finished(r) /\ MfaPosts' = MfaPosts
                 /\ lastUpgrade' = lastUpgrade
                 /\ token' = token
         ]_vars

\* a login was answered with an unsupported upgrade: it rejected, the caller
\* holds no continuation, nothing is in flight and no secret is stored
C24_Witness ==
    loginError /\ mfa = Absent /\ lastUpgrade = Absent /\ isNil(token)
    /\ calls = EmptyBag

\* C25: every submit of a continuation, retries included, posts the upgrade
\* message of the continuation unchanged; a submission that is answered
\* without a token, or fails, leaves the stored secret and the continuation
\* as they were, and a continuation can always be submitted again
C25_SubmitPostsUpgrade ==
    /\ [] ( (mfa # Absent /\ Quiescent /\ CanStart) => ENABLED MfaSubmit )
    /\ [][ /\ MfaSubmit => (lastUpgrade' = mfa /\ mfa' = mfa)
           /\ \A r \in InFlight, resp \in Responses :
                (MfaResponse(r, resp) /\ isNil(resp.token)) =>
                    (token' = token /\ mfa' = mfa /\ calls' = Finished(r))
           /\ \A r \in InFlight :
                MfaPostFail(r) => (token' = token /\ mfa' = mfa)
         ]_vars

\* a submit returned without a token, no secret is stored, and a further
\* submit of the same continuation is in flight with the same upgrade
C25_Witness ==
    submitResult = "returned" /\ isNil(token) /\ MfaPosts = 1
    /\ mfa # Absent /\ lastUpgrade = mfa

\* C26: a submit that is answered with success and a token returns only after
\* finalize (updateCredentials) has completed, with the secret of that
\* response stored; until then it has not returned, and for every other
\* response finalize is not invoked and submit returns at once
C26_FinalizeBeforeReturn ==
    [][ /\ \A r \in InFlight :
             (MfaFinalizeDone(r) /\ submitResult' = "finalized") =>
                 (token' = TokenOf(Decrypt(r.data)) /\ ~isNil(token'))
        /\ \A r \in InFlight, resp \in Responses :
             MfaResponse(r, resp) =>
                 IF resp.success /\ ~isNil(resp.token)
                 THEN /\ submitResult' = submitResult
                      /\ token' = token
                      /\ \E c \in BagToSet(calls') :
                            c.pc = "finalize" /\ c.data = resp.token
                 ELSE /\ submitResult' = "returned"
                      /\ calls' = Finished(r)
                      /\ token' = token
      ]_vars

\* a submit returned after finalize, and the secret is stored
C26_Witness ==
    submitResult = "finalized" /\ ~isNil(token) /\ calls = EmptyBag
    /\ token = TokenOf(CHOOSE x \in Secrets : TRUE)


\* the shared storage holds a credential pair
StoreHoldsPair == \E k \in KeyIds : store = Stringify(PairRecord(k))

\* tab t is the only browsing context that uses the shared storage
Alone(t) == \A u \in Tabs \ { t } : ~hasStorage[u]

Settled ==
    \A t \in Tabs :
        events[t] = 0 /\ ~debounce[t] /\ deferred[t].held = "none" /\ ~genPending[t]

\* C28: when the tabs that share the storage write the credential record,
\* once everything is processed every tab holds in memory the value the
\* storage holds, which is the value of the later write, and no tab writes
\* again a credential pair that another write has replaced
C28_TabsConverge ==
    /\ [] ( (Settled /\ \A t \in Tabs : hasStorage[t]) =>
                \A t \in Tabs : Stringify(mem[t]) = store )
    /\ [][ (store' # store /\ StoreHoldsPair') => store' # prevItem ]_vars


\* C29: apiCall() always resolves and never rejects: with the result of the
\* callback when the callback returns, and with undefined, after an error
\* notification was published, when the callback throws
C29_ApiCallNeverRejects ==
    /\ [] (lastSettle # "rejected")
    /\ [][ /\ ApiCallReturn => lastSettle' = "result"
           /\ \A e \in Thrown :
                ApiCallThrow(e) =>
                    (lastSettle' = "undefined" /\ notified' = Notification(e))
         ]_vars

\* C30: the waiting flag is true exactly when at least one apiCall() is
\* pending, whatever the order in which the calls start and settle
C30_WaitingIffPending == [] (waiting <=> pendingApi > 0)

\* C34: the observer of loggedIn changes only the stored token: when it has
\* run after loggedIn became false, the token is null and the private key,
\* the public key and the browser id are what they were before it ran.
C34_WatcherWritesTokenOnly ==
    [][ WatcherFlush =>
          /\ priv' = priv /\ pub' = pub /\ bid' = bid
          /\ (watchOld /\ ~loggedIn) => token' = Nil
      ]_vars

C34_Witness ==
    /\ watchPending /\ watchOld /\ ~loggedIn /\ token # Nil
    /\ KeysPresent(priv, pub) /\ bid # Nil /\ loginCookie = 0

\* an updateCredentials call is started by the step
UpdateStarted ==
    \E c \in BagToSet(calls') :
        /\ c.op = "updateCredentials" /\ c.pc = "decrypt"
        /\ CopiesIn(c, calls') > CopiesIn(c, calls)

\* C33: when the login response arrives, login() goes on to store a shared
\* secret (it calls updateCredentials) if and only if the response has success
\* true and carries a token; for a response with success false and for an
\* MFA-required response login() returns in the same step with the stored
\* token and key pair unchanged.
C33_LoginStoresOnToken ==
    [][ /\ \A r \in InFlight : \A resp \in Responses :
              LoginResponse(r, resp) =>
                /\ UpdateStarted <=> (resp.success /\ resp.token # Nil)
                /\ token' = token /\ priv' = priv /\ pub' = pub
                /\ ~resp.success =>
                      /\ CopiesIn(r, calls') = CopiesIn(r, calls) - 1
                      /\ BagCardinality(calls') = BagCardinality(calls) - 1
        /\ \A r \in InFlight : \A upgrade \in Upgrades :
              LoginUpgrade(r, upgrade) =>
                /\ ~UpdateStarted
                /\ token' = token /\ priv' = priv /\ pub' = pub
                /\ BagCardinality(calls') = BagCardinality(calls) - 1
      ]_vars

C33_Witness ==
    /\ token = Nil /\ KeysPresent(priv, pub) /\ mfa # Absent
    /\ \E c \in InFlight :
          c.op = "updateCredentials" /\ c.pc = "decrypt" /\ c.data \in Ciphertexts

\* C39: when the request of logout() fails, the call is over in that step
\* (it rejects: nothing after the await runs) and key pair, token and browser
\* id are unchanged; a logout call goes on to regenerate the keys only in the
\* step in which its request returned.
C39_FailedLogoutKeepsState ==
    [][ /\ \A r \in InFlight :
              (PostFail(r) /\ r.op = "logout") =>
                /\ priv' = priv /\ pub' = pub /\ token' = token /\ bid' = bid
                /\ nextKey' = nextKey
                /\ CopiesIn(r, calls') = CopiesIn(r, calls) - 1
                /\ BagCardinality(calls') = BagCardinality(calls) - 1
        /\ \A c \in BagToSet(calls') :
              (c.op = "logout" /\ c.pc = "gen" /\ CopiesIn(c, calls') > CopiesIn(c, calls))
              => \E r \in InFlight : LogoutResponse(r)
      ]_vars

C39_Witness ==
    /\ loggedIn /\ KeysPresent(priv, pub) /\ bid # Nil /\ ~watchPending
    /\ \E r \in InFlight : r.op = "logout" /\ r.pc = "post" /\ r.auth
    /\ \E r \in InFlight : r.op = "logout" /\ r.pc = "post" /\ ~r.auth

C35_SignedWithSecretAtCall ==
    /\ [](token = Nil \/ \E s \in Secrets \cup RenewedSecrets :
                            token = ArrayBuffToBase64(s))
    /\ [][ /\ (SignStart /\ token # Nil) =>
                \E c \in BagToSet(calls') :
                    /\ CopiesIn(c, calls') = CopiesIn(c, calls) + 1
                    /\ c.pc = "sign"
                    /\ ArrayBuffToBase64(c.keyData) = token
          /\ \A r \in InFlight :
                SignDone(r) => lastOtp' = r.data \o << 46 >> \o r.keyData
       ]_vars

C35_Witness ==
    /\ token = ArrayBuffToBase64(<< 7 >>)
    /\ \E r \in InFlight : r.pc = "sign" /\ r.keyData = << 23, 201 >>
    /\ \E r \in InFlight : r.pc = "sign" /\ r.keyData = << 7 >>

\* C37: when finalize() of a login completes, the user name is the email of
\* the response if updateCredentials stored the token (and is left alone if
\* it rejected); and once loggedIn has changed to false the user name is
\* reset to null by the watcher of the user module, with no other call in
\* between (no logout is needed for it).
C37_UserNameFollowsLogin ==
    [][ /\ \A r \in InFlight : \A email \in Emails :
              LoginFinalizeDone(r, email) =>
                IF CanDecrypt(r.keyData, r.data)
                THEN userName' = email /\ token' = ArrayBuffToBase64(Decrypt(r.data))
                ELSE userName' = userName /\ token' = token
        /\ (userWatchOld /\ ~loggedIn /\ ~watchPending) =>
              (UserWatcherFlush /\ userName' = Nil /\ ~userWatchOld')
        /\ (UserWatcherFlush /\ loggedIn) => userName' = userName
      ]_vars

C37_Witness ==
    /\ userName = << 118 >> /\ userWatchOld /\ ~loggedIn /\ ~watchPending
    /\ token = Nil /\ KeysPresent(priv, pub) /\ calls = EmptyBag

\* C32: usePageGuard called while loggedIn is false stores the current route
\* as the last page and navigates to the login route, and called while it is
\* true does neither; afterwards, once loggedIn has changed to false, the
\* next step is the guard storing the current route and navigating to the
\* login route, and a change to true causes no navigation.
C32_GuardRedirectsOnLoggedOut ==
    [][ /\ UsePageGuard =>
              IF loggedIn
              THEN lastPage' = lastPage /\ navTarget' = navTarget
              ELSE lastPage' = route /\ navTarget' = LoginRoute
        /\ (guarding /\ guardOld /\ ~loggedIn /\ ~watchPending) =>
              (GuardWatcherFlush /\ lastPage' = route /\ navTarget' = LoginRoute)
        /\ (GuardWatcherFlush /\ loggedIn) =>
              (lastPage' = lastPage /\ navTarget' = navTarget /\ route' = route)
      ]_vars

C32_Witness ==
    /\ guarding /\ guardOld /\ ~loggedIn /\ ~watchPending
    /\ lastPage = StartRoute /\ route = << 47, 98 >> /\ navTarget = Nil

C36_BufferEqualsDataAfterReset ==
    /\ [](lastOp \in { "apply", "revert" } => (buffer = resourceData /\ ~modified))
    /\ [][ \A newData \in Objects :
              Apply(newData) =>
                \A k \in Keys : newData[k] # Absent => resourceData'[k] = newData[k]
         ]_vars

====
